---- MODULE Spec2Model ----
(***************************************************************************)
(* Model of profile.py, a geni-lib portal profile: a straight-line script  *)
(* that builds a request (tour, one raw PC, one blockstore) and prints it. *)
(*                                                                         *)
(* Each statement of the script is one action.  A run is one invocation   *)
(* of the interpreter on the script; NumRuns independent invocations are   *)
(* modelled side by side so that runs can be compared with each other.    *)
(* The module namespace of a run is the function globals[r] from the       *)
(* names the script has bound to the objects they denote; an object that   *)
(* holds another one holds its name (a reference), so that an assignment   *)
(* made after the object was added to the request is seen through it.     *)
(* geni-lib itself is not part of the repository: a call into it has the   *)
(* effect the statement asks for, or raises.                               *)
(***************************************************************************)
EXTENDS Integers, Sequences, FiniteSets, TLC

NumRuns == 2
Runs == 1..NumRuns

LastLine == 27
EOF == LastLine + 1

\* The statements of the script, by the line each starts on, in program order
\* (the three imports of lines 1-3 are one step).
Lines == <<1, 6, 7, 9, 13, 14, 15, 18, 19, 20, 21, 23, 24, 27>>

\* Every statement but the string assignment of line 9 calls into geni-lib or
\* sets an attribute of one of its objects, and so may raise.
FaultLines == {1, 6, 7, 13, 14, 15, 18, 19, 20, 21, 23, 24, 27}

tourDescription == "\nExample profile for the hello-world-cluster\n"
TEXT == "text"
DeployNode == "deploy-node"
HardwareType == "d430"
DiskImage == "urn:publicid:IDN+emulab.net+image+emulab-ops:UBUNTU22-64-STD"
BsName == "bs"
BsMount == "/mydata"
BsSize == "20GB"
None == "None"

\* line[r]: the line of the next statement of run r, or EOF
\* status[r]: "constructing", "emitted" or "aborted"
\* exitStatus[r]: "running", "success" or "failure"
\* globals[r]: the module namespace of run r
\* stdout[r]: what run r has written to standard output
VARIABLES line, status, exitStatus, globals, stdout

vars == <<line, status, exitStatus, globals, stdout>>

----------------------------------------------------------------------------
\* Program order

IndexOf(l) == CHOOSE i \in 1..Len(Lines) : Lines[i] = l

NextLineSwapped(l) ==
    IF l = 23 THEN 27
    ELSE IF l = 27 THEN 24
    ELSE IF l = 24 THEN EOF
    ELSE Lines[IndexOf(l) + 1]

NextLineLoop(l) ==
    IF l = 21 THEN 19
    ELSE IF IndexOf(l) = Len(Lines) THEN EOF ELSE Lines[IndexOf(l) + 1]

NextLine(l) == IF IndexOf(l) = Len(Lines) THEN EOF ELSE Lines[IndexOf(l) + 1]

\* No try/except in the script: a statement runs only while no exception has
\* been raised and the end of the file has not been reached.
RunningIgnoreFault(r) == line[r] # EOF

Running(r) == status[r] # "aborted" /\ line[r] # EOF

At(r, l) == Running(r) /\ line[r] = l

\* Go on to the next statement; falling off the end of the file exits with
\* status 0.
Advance(r) ==
    /\ line' = [line EXCEPT ![r] = NextLine(@)]
    /\ exitStatus' = [exitStatus EXCEPT
                        ![r] = IF NextLine(line[r]) = EOF THEN "success" ELSE @]

----------------------------------------------------------------------------
\* Namespace and objects

Bind(g, name, obj) == (name :> obj) @@ g

SetAttr(g, name, attr, val) == Bind(g, name, (attr :> val) @@ g[name])

OfKind(g, k) == {n \in DOMAIN g : "kind" \in DOMAIN g[n] /\ g[n].kind = k}

\* The document printRequestRSpec writes: the request with every reference
\* followed, as the objects are at the moment of the call.
RenderBlockstore(g, b) ==
    [name |-> g[b].name, mount |-> g[b].mount, size |-> g[b].size]

RenderNode(g, n) ==
    [client_id |-> g[n].name,
     hardware_type |-> g[n].hardware_type,
     disk_image |-> g[n].disk_image,
     routable_control_ip |-> g[n].routable_control_ip,
     blockstores |-> [i \in 1..Len(g[n].blockstores) |->
                         RenderBlockstore(g, g[n].blockstores[i])]]

RenderTour(g, t) == [type |-> g[t].description_type, text |-> g[t].description]

RenderRSpec(g, req) ==
    [tours |-> [i \in 1..Len(g[req].tours) |-> RenderTour(g, g[req].tours[i])],
     nodes |-> [i \in 1..Len(g[req].resources) |->
                   RenderNode(g, g[req].resources[i])]]

----------------------------------------------------------------------------
Init ==
    /\ line = [r \in Runs |-> Lines[1]]
    /\ status = [r \in Runs |-> "constructing"]
    /\ exitStatus = [r \in Runs |-> "running"]
    /\ globals = [r \in Runs |-> <<>>]
    /\ stdout = [r \in Runs |-> <<>>]

\* lines 1-3
Import(r) ==
    /\ At(r, 1)
    /\ globals' = [globals EXCEPT ![r] =
                      Bind(Bind(Bind(@, "portal", [kind |-> "module"]),
                                "pg", [kind |-> "module"]),
                           "IG", [kind |-> "module"])]
    /\ Advance(r)
    /\ UNCHANGED <<status, stdout>>

\* line 6: pc = portal.Context()
Context(r) ==
    /\ At(r, 6)
    /\ globals' = [globals EXCEPT ![r] = Bind(@, "pc", [kind |-> "Context"])]
    /\ Advance(r)
    /\ UNCHANGED <<status, stdout>>

\* line 7: request = pc.makeRequestRSpec()
makeRequestRSpec(r) ==
    /\ At(r, 7)
    /\ globals' = [globals EXCEPT ![r] =
                      Bind(@, "request",
                           [kind |-> "Request", tours |-> <<>>, resources |-> <<>>])]
    /\ Advance(r)
    /\ UNCHANGED <<status, stdout>>

\* lines 9-12: tourDescription = """..."""
AssignTourDescription(r) ==
    /\ At(r, 9)
    /\ globals' = [globals EXCEPT ![r] =
                      Bind(@, "tourDescription", [value |-> tourDescription])]
    /\ Advance(r)
    /\ UNCHANGED <<status, stdout>>

\* line 13: tour = IG.Tour()
Tour(r) ==
    /\ At(r, 13)
    /\ globals' = [globals EXCEPT ![r] =
                      Bind(@, "tour", [kind |-> "Tour", description_type |-> None,
                                       description |-> None])]
    /\ Advance(r)
    /\ UNCHANGED <<status, stdout>>

\* line 14: tour.Description(IG.Tour.TEXT, tourDescription)
DescriptionStripped(r) ==
    /\ At(r, 14)
    /\ globals' = [globals EXCEPT ![r] =
                      SetAttr(SetAttr(@, "tour", "description_type", TEXT),
                              "tour", "description",
                              "Example profile for the hello-world-cluster")]
    /\ Advance(r)
    /\ UNCHANGED <<status, stdout>>

Description(r) ==
    /\ At(r, 14)
    /\ globals' = [globals EXCEPT ![r] =
                      SetAttr(SetAttr(@, "tour", "description_type", TEXT),
                              "tour", "description", @["tourDescription"].value)]
    /\ Advance(r)
    /\ UNCHANGED <<status, stdout>>

\* line 15: request.addTour(tour)
addTour(r) ==
    /\ At(r, 15)
    /\ globals' = [globals EXCEPT ![r] =
                      SetAttr(@, "request", "tours", Append(@["request"].tours, "tour"))]
    /\ Advance(r)
    /\ UNCHANGED <<status, stdout>>

\* line 18: node = request.RawPC("deploy-node")
RawPCFromArgument(r) ==
    /\ At(r, 18)
    /\ \E name \in {DeployNode, "node-" \o ToString(r)} :
          globals' = [globals EXCEPT ![r] =
                      SetAttr(Bind(@, "node",
                                   [kind |-> "RawPC", name |-> name,
                                    hardware_type |-> None, disk_image |-> None,
                                    routable_control_ip |-> FALSE,
                                    blockstores |-> <<>>]),
                              "request", "resources",
                              Append(@["request"].resources, "node"))]
    /\ Advance(r)
    /\ UNCHANGED <<status, stdout>>

RawPC(r) ==
    /\ At(r, 18)
    /\ globals' = [globals EXCEPT ![r] =
                      SetAttr(Bind(@, "node",
                                   [kind |-> "RawPC", name |-> DeployNode,
                                    hardware_type |-> None, disk_image |-> None,
                                    routable_control_ip |-> FALSE,
                                    blockstores |-> <<>>]),
                              "request", "resources",
                              Append(@["request"].resources, "node"))]
    /\ Advance(r)
    /\ UNCHANGED <<status, stdout>>

\* line 19: node.hardware_type = "d430"
SetHardwareType(r) ==
    /\ At(r, 19)
    /\ globals' = [globals EXCEPT ![r] = SetAttr(@, "node", "hardware_type", HardwareType)]
    /\ Advance(r)
    /\ UNCHANGED <<status, stdout>>

\* line 20: node.disk_image = "urn:..."
SetDiskImageOnCopy(r) ==
    /\ At(r, 20)
    /\ globals' = [globals EXCEPT ![r] =
                      Bind(@, "node2", SetAttr(@, "node", "disk_image", DiskImage)["node"])]
    /\ Advance(r)
    /\ UNCHANGED <<status, stdout>>

SetDiskImage(r) ==
    /\ At(r, 20)
    /\ globals' = [globals EXCEPT ![r] = SetAttr(@, "node", "disk_image", DiskImage)]
    /\ Advance(r)
    /\ UNCHANGED <<status, stdout>>

\* line 21: node.routable_control_ip = True
SetRoutableControlIpSkipped(r) ==
    /\ At(r, 21)
    /\ globals' = globals
    /\ Advance(r)
    /\ UNCHANGED <<status, stdout>>

SetRoutableControlIp(r) ==
    /\ At(r, 21)
    /\ globals' = [globals EXCEPT ![r] = SetAttr(@, "node", "routable_control_ip", TRUE)]
    /\ Advance(r)
    /\ UNCHANGED <<status, stdout>>

\* line 23: bs = node.Blockstore("bs", "/mydata")
BlockstoreDetached(r) ==
    /\ At(r, 23)
    /\ globals' = [globals EXCEPT ![r] =
                      Bind(@, "bs", [kind |-> "Blockstore", name |-> BsName,
                                     mount |-> BsMount, size |-> None])]
    /\ Advance(r)
    /\ UNCHANGED <<status, stdout>>

Blockstore(r) ==
    /\ At(r, 23)
    /\ globals' = [globals EXCEPT ![r] =
                      SetAttr(Bind(@, "bs", [kind |-> "Blockstore", name |-> BsName,
                                             mount |-> BsMount, size |-> None]),
                              "node", "blockstores",
                              Append(@["node"].blockstores, "bs"))]
    /\ Advance(r)
    /\ UNCHANGED <<status, stdout>>

\* line 24: bs.size = "20GB"
SetSize(r) ==
    /\ At(r, 24)
    /\ globals' = [globals EXCEPT ![r] = SetAttr(@, "bs", "size", BsSize)]
    /\ Advance(r)
    /\ UNCHANGED <<status, stdout>>

\* line 27: pc.printRequestRSpec(request)
printRequestRSpecTwice(r) ==
    /\ At(r, 27)
    /\ stdout' = [stdout EXCEPT ![r] =
                     @ \o <<[kind |-> "document",
                             body |-> RenderRSpec(globals[r], "request")],
                            [kind |-> "document",
                             body |-> RenderRSpec(globals[r], "request")]>>]
    /\ status' = [status EXCEPT ![r] = "emitted"]
    /\ Advance(r)
    /\ UNCHANGED globals

printRequestRSpec(r) ==
    /\ At(r, 27)
    /\ stdout' = [stdout EXCEPT ![r] =
                     Append(@, [kind |-> "document",
                                body |-> RenderRSpec(globals[r], "request")])]
    /\ status' = [status EXCEPT ![r] = "emitted"]
    /\ Advance(r)
    /\ UNCHANGED globals

\* An exception raised by the statement at line[r]: nothing catches it, the
\* interpreter prints the traceback to standard error and exits with status 1.
\* What geni-lib has written to standard output when printRequestRSpec raises
\* is not fixed by the script: nothing, or an incomplete document.
FaultWithOutput(r) ==
    /\ Running(r)
    /\ line[r] \in FaultLines
    /\ status' = [status EXCEPT ![r] = "aborted"]
    /\ exitStatus' = [exitStatus EXCEPT ![r] = "failure"]
    /\ \/ UNCHANGED stdout
       \/ stdout' = [stdout EXCEPT ![r] = Append(@, [kind |-> "partial"])]
    /\ UNCHANGED <<line, globals>>

Fault(r) ==
    /\ Running(r)
    /\ line[r] \in FaultLines
    /\ status' = [status EXCEPT ![r] = "aborted"]
    /\ exitStatus' = [exitStatus EXCEPT ![r] = "failure"]
    /\ \/ UNCHANGED stdout
       \/ /\ line[r] = 27
          /\ stdout' = [stdout EXCEPT ![r] = Append(@, [kind |-> "partial"])]
    /\ UNCHANGED <<line, globals>>

Statement(r) ==
    \/ Import(r)
    \/ Context(r)
    \/ makeRequestRSpec(r)
    \/ AssignTourDescription(r)
    \/ Tour(r)
    \/ Description(r)
    \/ addTour(r)
    \/ RawPC(r)
    \/ SetHardwareType(r)
    \/ SetDiskImage(r)
    \/ SetRoutableControlIp(r)
    \/ Blockstore(r)
    \/ SetSize(r)
    \/ printRequestRSpec(r)

Next ==
    \E r \in Runs :
        \/ Import(r)
        \/ Context(r)
        \/ makeRequestRSpec(r)
        \/ AssignTourDescription(r)
        \/ Tour(r)
        \/ Description(r)
        \/ addTour(r)
        \/ RawPC(r)
        \/ SetHardwareType(r)
        \/ SetDiskImage(r)
        \/ SetRoutableControlIp(r)
        \/ Blockstore(r)
        \/ SetSize(r)
        \/ printRequestRSpec(r)
        \/ Fault(r)

Spec == Init /\ [][Next]_vars

\* The interpreter is single-threaded and synchronous and no statement blocks:
\* a run whose next statement can execute executes it.  An exception is never
\* forced.
FairSpec == Spec /\ \A r \in Runs : WF_vars(Statement(r))

----------------------------------------------------------------------------
\* Properties

Documents(r) == {i \in DOMAIN stdout[r] : stdout[r][i].kind = "document"}

Emitted(r) == status[r] = "emitted"

Aborted(r) == status[r] = "aborted"

\* The run is at the emit step or past it.
AtOrPastEmit(r) == line[r] = 27 \/ Emitted(r)

RunUnchanged(r) ==
    /\ line'[r] = line[r]
    /\ status'[r] = status[r]
    /\ exitStatus'[r] = exitStatus[r]
    /\ globals'[r] = globals[r]
    /\ stdout'[r] = stdout[r]

\* C1: when a run reaches the emit step, and in the document it emits, the
\* request holds exactly one node; that node is named "deploy-node", has
\* hardware type "d430" and the fixed disk image URN.
C1_OneNode ==
    \A r \in Runs :
        /\ AtOrPastEmit(r) =>
              LET g == globals[r] IN
              /\ Len(g["request"].resources) = 1
              /\ LET n == g[g["request"].resources[1]] IN
                 /\ n.name = "deploy-node"
                 /\ n.hardware_type = "d430"
                 /\ n.disk_image =
                       "urn:publicid:IDN+emulab.net+image+emulab-ops:UBUNTU22-64-STD"
        /\ Emitted(r) =>
              LET d == stdout[r][1].body IN
              /\ Len(d.nodes) = 1
              /\ d.nodes[1].client_id = "deploy-node"
              /\ d.nodes[1].hardware_type = "d430"
              /\ d.nodes[1].disk_image =
                    "urn:publicid:IDN+emulab.net+image+emulab-ops:UBUNTU22-64-STD"

C1_Witness ==
    \E r \in Runs : Emitted(r) /\ Len(stdout[r][1].body.nodes) = 1

\* C2: the single node of the emitted request has exactly one blockstore,
\* named "bs", mounted at "/mydata", of size "20GB"; the blockstore is attached
\* to the node "deploy-node" and to no other node.
C2_OneBlockstore ==
    \A r \in Runs :
        /\ AtOrPastEmit(r) =>
              LET g == globals[r]
                  holders == {n \in OfKind(g, "RawPC") :
                                 \E i \in DOMAIN g[n].blockstores :
                                     g[n].blockstores[i] = "bs"}
              IN
              /\ Len(g["request"].resources) = 1
              /\ LET n == g[g["request"].resources[1]] IN
                 /\ Len(n.blockstores) = 1
                 /\ g[n.blockstores[1]].name = "bs"
                 /\ g[n.blockstores[1]].mount = "/mydata"
                 /\ g[n.blockstores[1]].size = "20GB"
              /\ holders = {g["request"].resources[1]}
              /\ \A n \in holders : g[n].name = "deploy-node"
        /\ Emitted(r) =>
              LET d == stdout[r][1].body IN
              /\ Len(d.nodes) = 1
              /\ d.nodes[1].blockstores =
                    <<[name |-> "bs", mount |-> "/mydata", size |-> "20GB"]>>

C2_Witness ==
    \E r \in Runs : Emitted(r) /\ Len(stdout[r][1].body.nodes[1].blockstores) = 1

\* C3: the single node of the request has routable_control_ip set to true at
\* the moment the request is serialized, and so in the emitted document.
C3_RoutableControlIp ==
    \A r \in Runs :
        /\ AtOrPastEmit(r) =>
              LET g == globals[r] IN
              \A i \in DOMAIN g["request"].resources :
                  g[g["request"].resources[i]].routable_control_ip = TRUE
        /\ Emitted(r) =>
              /\ Len(stdout[r][1].body.nodes) = 1
              /\ stdout[r][1].body.nodes[1].routable_control_ip = TRUE

C3_Witness ==
    \E r \in Runs : Emitted(r) /\ stdout[r][1].body.nodes[1].routable_control_ip

\* C4: the tour description carried by the emitted request is the text assigned
\* to tourDescription, verbatim (leading and trailing newline included), and
\* exactly one tour is attached to the request.
C4_TourText ==
    \A r \in Runs :
        /\ AtOrPastEmit(r) =>
              LET g == globals[r] IN
              /\ Len(g["request"].tours) = 1
              /\ g[g["request"].tours[1]].description =
                    "\nExample profile for the hello-world-cluster\n"
        /\ Emitted(r) =>
              LET d == stdout[r][1].body IN
              /\ Len(d.tours) = 1
              /\ d.tours[1].text = "\nExample profile for the hello-world-cluster\n"
              /\ d.tours[1].type = "text"

C4_Witness ==
    \E r \in Runs : Emitted(r) /\ Len(stdout[r][1].body.tours) = 1

C6_Terminates ==
    /\ \A r \in Runs :
          <>(Aborted(r) \/
             (Emitted(r) /\ line[r] = EOF /\ exitStatus[r] = "success"))
    /\ [][\A r \in Runs : line'[r] >= line[r]]_vars

C6_Witness ==
    \E r \in Runs : Emitted(r) /\ line[r] = EOF /\ exitStatus[r] = "success"

C8_AbortAtFirstFault ==
    /\ [](\A r \in Runs :
            Aborted(r) => exitStatus[r] = "failure" /\ line[r] # EOF
                          /\ Documents(r) = {})
    /\ [][\A r \in Runs : Aborted(r) => RunUnchanged(r)]_vars
    /\ [][\A r \in Runs :
            (~Aborted(r) /\ status'[r] = "aborted") =>
                line'[r] = line[r] /\ globals'[r] = globals[r]]_vars

C8_Witness ==
    \E r \in Runs : Aborted(r) /\ line[r] = 20 /\ exitStatus[r] = "failure"

\* The request is complete: the tour is attached, the node has its three
\* attributes set and the blockstore is attached with its size set.
Complete(g) ==
    /\ {"request", "tour", "node", "bs"} \subseteq DOMAIN g
    /\ g["request"].tours = <<"tour">>
    /\ g["tour"].description # None
    /\ g["request"].resources = <<"node">>
    /\ g["node"].hardware_type # None
    /\ g["node"].disk_image # None
    /\ g["node"].routable_control_ip = TRUE
    /\ g["node"].blockstores = <<"bs">>
    /\ g["bs"].size # None

\* C9: the request is serialized only once it is complete, and no step after
\* the emit step changes the request, the tour, the node or the blockstore.
C9_EmitAfterComplete ==
    /\ [][\A r \in Runs :
            stdout'[r] # stdout[r] /\ status'[r] = "emitted" => Complete(globals[r])]_vars
    /\ [][\A r \in Runs :
            (Emitted(r) \/ stdout[r] # <<>>) => globals'[r] = globals[r]]_vars

C9_Witness ==
    \E r \in Runs :
        /\ Emitted(r)
        /\ Complete(globals[r])
        /\ stdout[r][1].body = RenderRSpec(globals[r], "request")

\* C10: a run that has not reached the emit step, aborted or not, has written
\* nothing to standard output: a fault at a construction step leaves standard
\* output empty.
C10_NoOutputBeforeEmit ==
    \A r \in Runs :
        (line[r] # EOF /\ line[r] # 27) => stdout[r] = <<>>

C10_Witness ==
    \E r \in Runs : Aborted(r) /\ line[r] = 24 /\ stdout[r] = <<>>

====
